---- MODULE Spec2Model ----
(***************************************************************************)
(* Model of compiler+runtime/wasm-examples/gen_wasm_cpp.py: extract_cpp    *)
(* (the extraction of generated C++ from the compiler's captured output)   *)
(* and main (the pipeline that runs the compiler, extracts, renders the    *)
(* driver and writes it).                                                  *)
(*                                                                         *)
(* Text is a sequence of atoms.  Each atom stands for one fixed string:    *)
(* NS, ST and BASE for the three literals of the two regular expressions,  *)
(* "A" and "B" for identifier characters, SP and NL for a blank and a line *)
(* feed, and the punctuation characters for themselves.  No literal of the *)
(* code's patterns or of its prefix list straddles two atoms, so matching  *)
(* on atoms is matching on the characters they stand for.                  *)
(***************************************************************************)
EXTENDS Integers, Sequences, FiniteSets, TLC

VARIABLES
  pc,                 \* position of main
  jank_binary_exists, \* jank_binary.exists()
  jank_file_exists,   \* jank_file.exists()
  proc,               \* the completed compiler run: None, or Some of its returncode, stdout, stderr
  source,             \* the argument extract_cpp was called with: None, or Some text
  cpp_lines,          \* extract_cpp's accumulated lines when its scan ended
  ret,                \* what extract_cpp returned: None, or Some tuple
  error,              \* the error raised, "none" when none was
  parent_dir,         \* whether output_path.parent exists
  driver,             \* the rendered driver text: None, or Some text
  output_file,        \* the file at output_path: None when absent, or Some content
  output_file0        \* that file when main started

vars == <<pc, jank_binary_exists, jank_file_exists, proc, source, cpp_lines, ret,
          error, parent_dir, driver, output_file, output_file0>>

\* Python's None and a present value
None == <<>>
Some(x) == <<x>>

----------------------------------------------------------------------------
(* Atoms *)

NS == "namespace"
ST == "struct"
BASE == "jank::runtime::obj::jit_function"
SP == " "
NL == "\n"

\* str.isspace / \s of the regular expressions
IsSpace(c) == c \in {SP, NL}

\* [A-Za-z0-9_]: the literals "namespace" and "struct" are identifier text too
IsIdent(c) == c \in {"A", "B", NS, ST}

\* atoms that begin with one of the prefixes of the startswith tuple
AllowedPrefixAtoms == {NS, ST, "{", "}", BASE, ";"}

Min(S) == CHOOSE x \in S : \A y \in S : x <= y
Max(S) == CHOOSE x \in S : \A y \in S : x >= y

----------------------------------------------------------------------------
(* Library string operations *)

\* str.split('\n')
SplitLines(s) ==
  LET nls == {i \in 1..Len(s) : s[i] = NL}
      n == Cardinality(nls)
      pos(k) == IF k = 0 THEN 0
                ELSE IF k = n + 1 THEN Len(s) + 1
                ELSE CHOOSE i \in nls : Cardinality({j \in nls : j <= i}) = k
  IN [k \in 1..(n + 1) |-> SubSeq(s, pos(k - 1) + 1, pos(k) - 1)]

\* '\n'.join(lines)
RECURSIVE JoinLines(_)
JoinLines(lines) ==
  IF lines = <<>> THEN <<>>
  ELSE IF Len(lines) = 1 THEN lines[1]
  ELSE lines[1] \o <<NL>> \o JoinLines(Tail(lines))

\* str.strip()
Strip(s) ==
  LET keep == {i \in 1..Len(s) : ~IsSpace(s[i])}
  IN IF keep = {} THEN <<>> ELSE SubSeq(s, Min(keep), Max(keep))

----------------------------------------------------------------------------
(* extract_cpp *)

\* line.strip().startswith((...)) of the scan
HasCppPrefix(line) ==
  LET t == Strip(line) IN t # <<>> /\ t[1] \in AllowedPrefixAtoms

\* BreaksScan without its first test, `line and`
BreaksScanNoEmptyTest(line) ==
  /\ (line = <<>> \/ ~IsSpace(line[1]))
  /\ Strip(line) # <<"}">>

\* the inner test of the scan: line and not line[0].isspace() and line.strip() != '}'
BreaksScan(line) ==
  /\ line # <<>>
  /\ ~IsSpace(line[1])
  /\ Strip(line) # <<"}">>

\* the for loop of extract_cpp from line i on, acc being cpp_lines
RECURSIVE ScanLines(_, _, _)
ScanLines(lines, i, acc) ==
  IF i > Len(lines) THEN acc
  ELSE IF acc # <<>> /\ ~HasCppPrefix(lines[i]) /\ BreaksScan(lines[i]) THEN acc
  ELSE ScanLines(lines, i + 1, Append(acc, lines[i]))

\* first index from i on whose atom is not white space
RECURSIVE SkipSpace(_, _)
SkipSpace(s, i) == IF i <= Len(s) /\ IsSpace(s[i]) THEN SkipSpace(s, i + 1) ELSE i

\* first index from i on whose atom is not identifier text
RECURSIVE SkipIdent(_, _)
SkipIdent(s, i) == IF i <= Len(s) /\ IsIdent(s[i]) THEN SkipIdent(s, i + 1) ELSE i

\* no match; a match is [start, end (exclusive), group]
NoMatch == [start |-> 0, end |-> 0, group |-> <<>>]

\* namespace\s+([A-Za-z0-9_]+)\s*\{ anchored at i
NsMatchAt(s, i) ==
  IF i > Len(s) \/ s[i] # NS THEN NoMatch
  ELSE LET a == SkipSpace(s, i + 1)
           b == SkipIdent(s, a)
           c == SkipSpace(s, b)
       IN IF a > i + 1 /\ b > a /\ c <= Len(s) /\ s[c] = "{"
          THEN [start |-> i, end |-> c + 1, group |-> SubSeq(s, a, b - 1)]
          ELSE NoMatch

\* struct\s+([A-Za-z0-9_]+)\s*:\s*jank::runtime::obj::jit_function anchored at i
StructMatchAt(s, i) ==
  IF i > Len(s) \/ s[i] # ST THEN NoMatch
  ELSE LET a == SkipSpace(s, i + 1)
           b == SkipIdent(s, a)
           c == SkipSpace(s, b)
           d == SkipSpace(s, c + 1)
       IN IF a > i + 1 /\ b > a /\ c <= Len(s) /\ s[c] = ":"
             /\ d <= Len(s) /\ s[d] = BASE
          THEN [start |-> i, end |-> d + 1, group |-> SubSeq(s, a, b - 1)]
          ELSE NoMatch

RECURSIVE NsSearchFrom(_, _)
NsSearchFrom(s, i) ==
  IF i > Len(s) THEN NoMatch
  ELSE LET m == NsMatchAt(s, i)
       IN IF m # NoMatch THEN m ELSE NsSearchFrom(s, i + 1)

\* the rightmost match of the namespace pattern instead of the leftmost
NsSearchLast(s) ==
  LET at == {i \in 1..Len(s) : NsMatchAt(s, i) # NoMatch}
  IN IF at = {} THEN NoMatch ELSE NsMatchAt(s, Max(at))

\* re.search of the namespace pattern: the leftmost match
NsSearch(s) == NsSearchFrom(s, 1)

\* list(re.finditer(...)) of the struct pattern from i on: the matches from
\* left to right, each search resuming where the previous match ended
RECURSIVE StructFindIter(_, _)
StructFindIter(s, i) ==
  IF i > Len(s) THEN <<>>
  ELSE LET m == StructMatchAt(s, i)
       IN IF m # NoMatch THEN <<m>> \o StructFindIter(s, m.end)
          ELSE StructFindIter(s, i + 1)

\* struct_matches[0] instead of struct_matches[-1]
EntryStructFirst(struct_matches) == struct_matches[1]

\* struct_matches[-1]
EntryStruct(struct_matches) == struct_matches[Len(struct_matches)]

\* the test `if not source` left out
IsEmptyOutputNever(src) == FALSE

\* if not source
IsEmptyOutput(src) == src = <<>>

\* the error of the namespace check raised by the struct check too
StructErrorCopied == "NamespaceNotFound"

\* the error raised when no jit_function struct is found
StructError == "EntryConstructNotFound"

\* lines 20..32: source.split('\n') and the scan
CppLines(src) == ScanLines(SplitLines(src), 1, <<>>)

\* a raise of RuntimeError; cpp_lines is the local variable as the scan left it
Raise(e, lines) ==
  [error |-> e, cpp_lines |-> lines, source |-> <<>>, namespace |-> <<>>,
   struct_name |-> <<>>]

\* extract_cpp(src): the tuple returned (error "none"), or the error raised
ExtractCpp(src) ==
  LET lines == CppLines(src)
      frag == Strip(JoinLines(lines))
      ns_match == NsSearch(frag)
      struct_matches == StructFindIter(frag, 1)
  IN IF IsEmptyOutput(frag) THEN Raise("EmptyOutput", lines)
     ELSE IF ns_match = NoMatch THEN Raise("NamespaceNotFound", lines)
     ELSE IF struct_matches = <<>> THEN Raise(StructError, lines)
     ELSE [error |-> "none", cpp_lines |-> lines, source |-> frag,
           namespace |-> ns_match.group,
           struct_name |-> EntryStruct(struct_matches).group]

----------------------------------------------------------------------------
(* The driver text *)

\* the indentation of the template's lines inside main
TemplateIndent == 8

Indent(n) == [i \in 1..n |-> SP]

\* the f-string of main, cpp_source, namespace and struct_name interpolated
DriverTemplate(cpp_source, namespace, struct_name) ==
  LET I == Indent(TemplateIndent)
      J == Indent(TemplateIndent + 2)
  IN JoinLines(<<
       <<>>,
       I \o <<"#include header_include">>,
       I \o <<"#ifdef __EMSCRIPTEN__">>,
       I \o <<"#  include <emscripten/emscripten.h>">>,
       I \o <<"#endif">>,
       <<>>,
       I \o cpp_source,
       <<>>,
       I \o <<"namespace {">>,
       J \o <<"using jank_entry_t = ::">> \o namespace \o <<":", ":">> \o struct_name \o <<";">>,
       I \o <<"}">>,
       <<>>,
       I \o <<"extern C {">>,
       <<>>,
       I \o <<"#ifdef __EMSCRIPTEN__">>,
       I \o <<"EMSCRIPTEN_KEEPALIVE">>,
       I \o <<"#endif">>,
       I \o <<"void jank_run_main() {">>,
       J \o <<"auto fn = jank::runtime::make_box<jank_entry_t>();">>,
       J \o <<"fn->call();">>,
       I \o <<"}">>,
       <<>>,
       I \o <<"int main() {">>,
       J \o <<"jank_run_main();">>,
       J \o <<"return 0;">>,
       I \o <<"}">>,
       <<>>,
       I \o <<"}">>,
       I >>)

\* number of blanks a line starts with
RECURSIVE LeadingBlanks(_)
LeadingBlanks(line) ==
  IF line # <<>> /\ line[1] = SP THEN 1 + LeadingBlanks(Tail(line)) ELSE 0

\* textwrap.dedent: lines of blanks only become empty, then the white space
\* common to the start of all other lines is removed from each of them
Dedent(text) ==
  LET lines == SplitLines(text)
      blank(l) == LeadingBlanks(l) = Len(l)
      norm == [k \in 1..Len(lines) |-> IF blank(lines[k]) THEN <<>> ELSE lines[k]]
      indents == {LeadingBlanks(norm[k]) : k \in {j \in 1..Len(norm) : norm[j] # <<>>}}
      margin == IF indents = {} THEN 0 ELSE Min(indents)
  IN JoinLines([k \in 1..Len(norm) |->
                  IF norm[k] = <<>> THEN <<>>
                  ELSE SubSeq(norm[k], margin + 1, Len(norm[k]))])

\* dedent(f"""...""").strip() + "\n"
Driver(cpp_source, namespace, struct_name) ==
  Strip(Dedent(DriverTemplate(cpp_source, namespace, struct_name))) \o <<NL>>

----------------------------------------------------------------------------
(* Inputs *)

\* raw texts given to extract_cpp alone: up to MaxPieces of Pieces concatenated,
\* and up to MaxLines lines of LineShapes joined
MaxPieces == 5
MaxLines == 4

Pieces ==
  { <<NS, SP, "A", "{">>,
    <<NS, SP, "B", "{">>,
    <<ST, SP, "A", ":", BASE>>,
    <<ST, SP, "B", ":", BASE>>,
    <<NL>>,
    <<SP>>,
    <<"A">> }

LineShapes ==
  { <<>>,
    <<SP>>,
    <<"A">>,
    <<SP, "A">>,
    <<"}">>,
    <<"A", "}">>,
    <<NS, SP, "A", "{">>,
    <<ST, SP, "B", ":", BASE>> }

\* captured output of the compiler run by main: lines of OutputLines
MaxStdoutLines == 2
MaxStderrLines == 1

OutputLines ==
  { <<NS, SP, "A", "{", NL>>,
    <<ST, SP, "B", ":", BASE, NL>>,
    <<SP, ST, SP, "B", ":", BASE, NL>>,
    <<SP, NL>>,
    <<"A", NL>> }

\* the texts of a sequence of pieces, concatenated
RECURSIVE Concat(_)
Concat(ps) == IF ps = <<>> THEN <<>> ELSE ps[1] \o Concat(Tail(ps))

\* the texts made of up to n pieces
Texts(pieces, n) ==
  {Concat(ps) : ps \in UNION {[1..k -> pieces] : k \in 0..n}}

----------------------------------------------------------------------------
(* main *)

\* main without the test of jank_binary.exists()
CheckBinarySkipped ==
  /\ pc = "check_binary"
  /\ pc' = "check_file"
  /\ UNCHANGED <<jank_binary_exists, jank_file_exists, proc, source, cpp_lines, ret,
                 error, parent_dir, driver, output_file, output_file0>>

\* jank_binary.exists(), else RuntimeError("... not found; build the compiler first")
CheckBinary ==
  /\ pc = "check_binary"
  /\ IF jank_binary_exists
     THEN pc' = "check_file" /\ error' = error
     ELSE pc' = "failed" /\ error' = "PrerequisiteMissing"
  /\ UNCHANGED <<jank_binary_exists, jank_file_exists, proc, source, cpp_lines, ret,
                 parent_dir, driver, output_file, output_file0>>

\* jank_file.exists(), else RuntimeError("... does not exist")
CheckFile ==
  /\ pc = "check_file"
  /\ IF jank_file_exists
     THEN pc' = "run" /\ error' = error
     ELSE pc' = "failed" /\ error' = "PrerequisiteMissing"
  /\ UNCHANGED <<jank_binary_exists, jank_file_exists, proc, source, cpp_lines, ret,
                 parent_dir, driver, output_file, output_file0>>

\* subprocess.run(..., check=True, capture_output=True, text=True): the compiler
\* runs to completion; a non-zero exit status raises CalledProcessError
RunSubprocess ==
  /\ pc = "run"
  /\ \E rc \in {0, 1}, out \in Texts(OutputLines, MaxStdoutLines),
        err \in Texts(OutputLines, MaxStderrLines) :
       /\ proc' = Some([returncode |-> rc, stdout |-> out, stderr |-> err])
       /\ IF rc = 0
          THEN pc' = "call_extract" /\ error' = error
          ELSE pc' = "failed" /\ error' = "SubprocessFailure"
  /\ UNCHANGED <<jank_binary_exists, jank_file_exists, source, cpp_lines, ret,
                 parent_dir, driver, output_file, output_file0>>

\* stdout and stderr concatenated instead of `or`
StdoutThenStderr(out, err) == out \o err

\* proc.stdout or proc.stderr
StdoutOrStderr(out, err) == IF out # <<>> THEN out ELSE err

\* the call extract_cpp(proc.stdout or proc.stderr)
CallExtract ==
  /\ pc = "call_extract"
  /\ source' = Some(StdoutOrStderr(proc[1].stdout, proc[1].stderr))
  /\ pc' = "extract"
  /\ UNCHANGED <<jank_binary_exists, jank_file_exists, proc, cpp_lines, ret, error,
                 parent_dir, driver, output_file, output_file0>>

\* the tuple extract_cpp returns
Returned(r) == [source |-> r.source, namespace |-> r.namespace, struct_name |-> r.struct_name]

\* extract_cpp's error caught and main going on with the text accumulated
ExtractBestEffort ==
  /\ pc = "extract"
  /\ LET r == ExtractCpp(source[1])
     IN /\ cpp_lines' = r.cpp_lines
        /\ error' = IF r.error = "none" THEN error ELSE r.error
        /\ ret' = Some(IF r.error = "none" THEN Returned(r)
                       ELSE [source |-> Strip(JoinLines(r.cpp_lines)),
                             namespace |-> <<>>, struct_name |-> <<>>])
  /\ pc' = "mkdir"
  /\ UNCHANGED <<jank_binary_exists, jank_file_exists, proc, source,
                 parent_dir, driver, output_file, output_file0>>

\* extract_cpp runs: it returns its tuple, or raises RuntimeError, which ends main
Extract ==
  /\ pc = "extract"
  /\ LET r == ExtractCpp(source[1])
     IN /\ cpp_lines' = r.cpp_lines
        /\ IF r.error = "none"
           THEN ret' = Some(Returned(r)) /\ error' = error /\ pc' = "mkdir"
           ELSE ret' = ret /\ error' = r.error /\ pc' = "failed"
  /\ UNCHANGED <<jank_binary_exists, jank_file_exists, proc, source,
                 parent_dir, driver, output_file, output_file0>>

\* output_path.parent.mkdir(parents=True, exist_ok=True)
Mkdir ==
  /\ pc = "mkdir"
  /\ parent_dir' = TRUE
  /\ pc' = "render"
  /\ UNCHANGED <<jank_binary_exists, jank_file_exists, proc, source, cpp_lines, ret,
                 error, driver, output_file, output_file0>>

\* driver = dedent(f"""...""").strip() + "\n"
Render ==
  /\ pc = "render"
  /\ driver' = Some(Driver(ret[1].source, ret[1].namespace, ret[1].struct_name))
  /\ pc' = "write"
  /\ UNCHANGED <<jank_binary_exists, jank_file_exists, proc, source, cpp_lines, ret,
                 error, parent_dir, output_file, output_file0>>

\* output_path.write_text(driver, encoding="utf-8"); return 0
Write ==
  /\ pc = "write"
  /\ output_file' = driver
  /\ pc' = "done"
  /\ UNCHANGED <<jank_binary_exists, jank_file_exists, proc, source, cpp_lines, ret,
                 error, parent_dir, driver, output_file0>>

\* main starts: the file system is as the invoker left it
Init ==
  /\ pc = "check_binary"
  /\ jank_binary_exists \in BOOLEAN
  /\ jank_file_exists \in BOOLEAN
  /\ parent_dir \in BOOLEAN
  /\ output_file \in {None, Some(<<"previous content">>)}
  /\ output_file0 = output_file
  /\ proc = None
  /\ source = None
  /\ cpp_lines = <<>>
  /\ ret = None
  /\ error = "none"
  /\ driver = None

Next ==
  \/ CheckBinary
  \/ CheckFile
  \/ RunSubprocess
  \/ CallExtract
  \/ Extract
  \/ Mkdir
  \/ Render
  \/ Write

Spec == Init /\ [][Next]_vars

\* extract_cpp alone, called with each text of up to MaxPieces pieces and each
\* text of up to MaxLines lines
InitExtract ==
  /\ pc = "extract"
  /\ \/ \E k \in 0..MaxPieces : \E ps \in [1..k -> Pieces] : source = Some(Concat(ps))
     \/ \E k \in 1..MaxLines : \E ls \in [1..k -> LineShapes] : source = Some(JoinLines(ls))
  /\ jank_binary_exists = TRUE
  /\ jank_file_exists = TRUE
  /\ proc = None
  /\ cpp_lines = <<>>
  /\ ret = None
  /\ error = "none"
  /\ parent_dir = FALSE
  /\ driver = None
  /\ output_file = None
  /\ output_file0 = None

NextExtract == Extract

SpecExtract == InitExtract /\ [][NextExtract]_vars

----------------------------------------------------------------------------
(* Properties *)

\* extract_cpp was called and has returned or raised
Extracted == source # None /\ pc # "extract"

\* the positions of s where the namespace pattern matches
NsAt(s) == {i \in 1..Len(s) : s[i] = NS /\ NsMatchAt(s, i) # NoMatch}

\* the positions of s where the jit_function struct pattern matches
StructAt(s) == {i \in 1..Len(s) : s[i] = ST /\ StructMatchAt(s, i) # NoMatch}

\* t occurs in s at position p
OccursAt(t, p, s) ==
  /\ p >= 1
  /\ p + Len(t) - 1 <= Len(s)
  /\ SubSeq(s, p, p + Len(t) - 1) = t

\* the text the accumulated lines make: joined, then trimmed
TrimmedFragment == Strip(JoinLines(cpp_lines))

(* ---- C1 ---- *)

\* C1 as stated: when extract_cpp returns for a raw text that holds a match of the
\* struct pattern, the entry name is the one captured by the last match in the
\* RAW TEXT.
C1_LastStructOfRawText ==
  (Extracted /\ ret # None /\ StructAt(source[1]) # {})
    => ret[1].struct_name
         = StructMatchAt(source[1], Max(StructAt(source[1]))).group

\* C1 amended: when extract_cpp returns, the returned fragment holds a match of the
\* struct pattern and the entry name is the one captured by the last match in the
\* FRAGMENT; matches of the raw text after the line where the scan stopped do not
\* count.
C1_LastStructOfFragment ==
  (Extracted /\ ret # None)
    => LET at == StructAt(ret[1].source)
       IN /\ at # {}
          /\ ret[1].struct_name = StructMatchAt(ret[1].source, Max(at)).group

\* extract_cpp returned for a fragment with several struct matches, the first of
\* which captures another name than the last
C1_Witness ==
  /\ Extracted
  /\ ret # None
  /\ Cardinality(StructAt(ret[1].source)) >= 2
  /\ StructMatchAt(ret[1].source, Min(StructAt(ret[1].source))).group
       # ret[1].struct_name

(* ---- C2 ---- *)

\* C2 as stated: a raw text without a match of the namespace pattern, the empty
\* and the blank ones included, makes extract_cpp fail with NamespaceNotFound, and
\* no output file is written.
C2_NoNamespaceIsNamespaceNotFound ==
  (Extracted /\ NsAt(source[1]) = {})
    => /\ pc = "failed"
       /\ error = "NamespaceNotFound"
       /\ output_file = output_file0

\* C2 amended: a raw text without a match of the namespace pattern makes
\* extract_cpp fail, with EmptyOutput when the trimmed fragment is empty (as for
\* an empty or blank raw text) and with NamespaceNotFound otherwise, and no output
\* file is written.
C2_NoNamespaceFails ==
  (Extracted /\ NsAt(source[1]) = {})
    => /\ pc = "failed"
       /\ error = (IF TrimmedFragment = <<>> THEN "EmptyOutput"
                   ELSE "NamespaceNotFound")
       /\ output_file = output_file0

\* main failed with NamespaceNotFound on a non-blank text without a namespace,
\* an output file being there from before
C2_Witness ==
  /\ Extracted
  /\ NsAt(source[1]) = {}
  /\ TrimmedFragment # <<>>
  /\ pc = "failed"
  /\ error = "NamespaceNotFound"
  /\ output_file0 # None

(* ---- C3 ---- *)

\* C3 as stated: a raw text with a match of the namespace pattern and none of the
\* struct pattern makes extract_cpp fail with EntryConstructNotFound, wherever the
\* namespace match lies.
C3_NamespaceAnywhere ==
  (Extracted /\ NsAt(source[1]) # {} /\ StructAt(source[1]) = {})
    => error = "EntryConstructNotFound"

\* C3 amended: a raw text without a match of the struct pattern whose trimmed
\* fragment (the lines before the one where the scan stopped) holds a match of the
\* namespace pattern makes extract_cpp fail with EntryConstructNotFound.
C3_NamespaceInFragment ==
  (Extracted /\ NsAt(TrimmedFragment) # {} /\ StructAt(source[1]) = {})
    => /\ ret = None
       /\ error = "EntryConstructNotFound"

\* extract_cpp failed with EntryConstructNotFound on a text whose scan stopped
\* before the last line
C3_Witness ==
  /\ Extracted
  /\ NsAt(TrimmedFragment) # {}
  /\ StructAt(source[1]) = {}
  /\ Len(cpp_lines) < Len(SplitLines(source[1]))
  /\ error = "EntryConstructNotFound"

(* ---- C4 ---- *)

\* "not source" as C4 words it: a line that does not start with white space, whose
\* stripped form is not '}' and does not begin with an allow-listed prefix; the
\* empty line is such a line
NotSourceAsStated(line) ==
  /\ line = <<>> \/ ~IsSpace(line[1])
  /\ Strip(line) # <<"}">>
  /\ ~HasCppPrefix(line)

\* the same of non-empty lines only
NotSourceNonEmpty(line) == line # <<>> /\ NotSourceAsStated(line)

\* the first line after the first that is P, one past the last line if none is
FirstAfterFirst(lines, P(_)) ==
  Min({i \in 2..Len(lines) : P(lines[i])} \cup {Len(lines) + 1})

\* C4 as stated: the scan keeps exactly the lines before the first line, after
\* the first, that is "not source", empty lines included.
C4_StopsAtNotSource ==
  Extracted
    => LET lines == SplitLines(source[1])
       IN cpp_lines = SubSeq(lines, 1, FirstAfterFirst(lines, NotSourceAsStated) - 1)

\* C4 amended: the scan keeps exactly the lines before the first NON-EMPTY line,
\* after the first, that is "not source"; an empty line never stops the scan.
C4_StopsAtNonEmptyNotSource ==
  Extracted
    => LET lines == SplitLines(source[1])
       IN cpp_lines = SubSeq(lines, 1, FirstAfterFirst(lines, NotSourceNonEmpty) - 1)

\* the scan kept an empty line after the first line and stopped at a later one
C4_Witness ==
  /\ Extracted
  /\ \E i \in 2..Len(cpp_lines) : cpp_lines[i] = <<>>
  /\ Len(cpp_lines) < Len(SplitLines(source[1]))

(* ---- C5 ---- *)

\* C5: the output file changes only by the write of the rendered driver, after
\* both checks, the compiler run and the extraction succeeded; a failed run
\* leaves the output file as it was.
C5_NoPartialOutput ==
  /\ output_file # output_file0
       => /\ pc = "done"
          /\ error = "none"
          /\ jank_binary_exists
          /\ jank_file_exists
          /\ proc # None
          /\ proc[1].returncode = 0
          /\ ret # None
          /\ driver # None
          /\ output_file = driver
  /\ pc = "failed"
       => /\ error \in {"PrerequisiteMissing", "SubprocessFailure", "EmptyOutput",
                        "NamespaceNotFound", "EntryConstructNotFound"}
          /\ output_file = output_file0

\* main failed in the extraction, after the compiler ran, an output file being
\* there from before
C5_Witness ==
  /\ pc = "failed"
  /\ error = "EntryConstructNotFound"
  /\ proc # None
  /\ output_file0 # None
  /\ output_file = output_file0

(* ---- C6 ---- *)

\* the alias line of the driver
AliasLine(namespace, struct_name) ==
  <<"using jank_entry_t = ::">> \o namespace \o <<":", ":">> \o struct_name \o <<";">>

\* C6: the written artifact holds, in this order, the include of the runtime
\* header, the fragment as extract_cpp returned it, the alias line and exactly
\* one int main.
C6_FragmentVerbatim ==
  pc = "done"
    => LET art == output_file[1]
           frag == ret[1].source
           alias == AliasLine(ret[1].namespace, ret[1].struct_name)
           includes == {i \in 1..Len(art) : art[i] = "#include header_include"}
           frags == {p \in 1..Len(art) : OccursAt(frag, p, art)}
           aliases == {q \in 1..Len(art) : OccursAt(alias, q, art)}
           mains == {m \in 1..Len(art) : art[m] = "int main() {"}
       IN /\ Cardinality(mains) = 1
          /\ \E i \in includes, p \in frags :
               /\ i < p
               /\ \E q \in aliases, m \in mains :
                    /\ p + Len(frag) <= q
                    /\ q + Len(alias) <= m

(* ---- C7 ---- *)

\* C7 as stated: the text given to extract_cpp holds the captured stdout and the
\* captured stderr.
C7_BothChannels ==
  source # None
    => /\ \E p \in 1..(Len(source[1]) + 1) : OccursAt(proc[1].stdout, p, source[1])
       /\ \E p \in 1..(Len(source[1]) + 1) : OccursAt(proc[1].stderr, p, source[1])

\* C7 amended: the text given to extract_cpp is the captured stdout when that is
\* not empty, and the captured stderr otherwise.
C7_StdoutElseStderr ==
  source # None
    => /\ proc # None
       /\ proc[1].returncode = 0
       /\ proc[1].stdout # <<>> => source[1] = proc[1].stdout
       /\ proc[1].stdout = <<>> => source[1] = proc[1].stderr

\* extract_cpp was given the stderr of a run that wrote nothing to stdout
C7_Witness ==
  /\ source # None
  /\ proc[1].stdout = <<>>
  /\ proc[1].stderr # <<>>
  /\ source[1] = proc[1].stderr

(* ---- C9 ---- *)

\* C9: the compiler runs only if the binary and the input file exist; a missing
\* binary fails main with PrerequisiteMissing and no compiler run; the output of
\* a run that exits non-zero is never given to extract_cpp.
C9_RunOnlyWithPrerequisites ==
  /\ proc # None => jank_binary_exists /\ jank_file_exists
  /\ (~jank_binary_exists /\ pc # "check_binary")
       => pc = "failed" /\ error = "PrerequisiteMissing" /\ proc = None
  /\ (proc # None /\ proc[1].returncode # 0)
       => pc = "failed" /\ error = "SubprocessFailure" /\ source = None /\ ret = None

\* the compiler ran and exited non-zero
C9_Witness ==
  /\ proc # None
  /\ proc[1].returncode # 0
  /\ proc[1].stdout # <<>>
  /\ pc = "failed"

(* ---- C10 ---- *)

\* C10: when extract_cpp returns, the fragment is not empty, neither starts nor
\* ends with white space, holds a match of the namespace pattern and one of the
\* struct pattern, and the namespace returned is the one captured by the first
\* namespace match of the fragment.
C10_ReturnedFragment ==
  (Extracted /\ ret # None)
    => LET frag == ret[1].source
       IN /\ frag # <<>>
          /\ ~IsSpace(frag[1])
          /\ ~IsSpace(frag[Len(frag)])
          /\ StructAt(frag) # {}
          /\ LET at == NsAt(frag)
             IN at # {} /\ ret[1].namespace = NsMatchAt(frag, Min(at)).group

\* extract_cpp returned a fragment with several namespace matches that capture
\* different names, trimmed of white space the raw text started or ended with
C10_Witness ==
  /\ Extracted
  /\ ret # None
  /\ Cardinality(NsAt(ret[1].source)) >= 2
  /\ NsMatchAt(ret[1].source, Max(NsAt(ret[1].source))).group # ret[1].namespace
  /\ ret[1].source # source[1]

====
